---- MODULE Spec2Model ----
(***************************************************************************)
(* PET (post-encroachment time) computation and the Monte-Carlo grid       *)
(* search around it: src/pet_calculator.py, src/sumo_interface.py,         *)
(* src/optimizer.py.                                                       *)
(*                                                                         *)
(* Times are integers counting HALF time units: a sample time t of the     *)
(* program is the even number 2t here, so that the midpoint                *)
(* (t_prev + t_curr) / 2.0 of two sample times is an exact integer.        *)
(* None is the record NoneT, a present time t is Some(t); float('inf') is  *)
(* the record Inf, a finite PET p is Fin(p).                               *)
(***************************************************************************)
EXTENDS Integers, Sequences, FiniteSets, TLC

VARIABLES
    SHAPELY_AVAILABLE,          \* pet_calculator.py:3-9, fixed at import
    vehicle_trajectory,         \* calculate_pet's arguments
    pedestrian_trajectory,
    encroachment_area_polygon,
    T_veh,                      \* (T_veh_entry, T_veh_exit)
    T_ped,                      \* (T_ped_entry, T_ped_exit)
    pet,                        \* calculate_pet's return value
    pet_pc,                     \* "call" before calculate_pet ran, "done" after
    \* run_optimizer (optimizer.py)
    N_SIM_RUNS_PER_AV_SPEED,    \* optimizer.py:22, fixed at import
    opt_pc,                     \* where run_optimizer is
    cand,                       \* index of av_speed in candidate_av_speeds, from 1
    i_run,
    current_sim_run_number,
    successful_pet_constraint_runs,
    run_traversal_times,
    optimization_summary,
    eligible_speeds,            \* (av_s, avg_tt, prob_cs) of the eligible candidates
    best_av_speed,
    best_traversal_time,
    best_prob_satisfaction,
    report,                     \* which of the two final reports was printed
    best_compromise,
    run_pet1s,
    run_pet2s,
    traversal_time_log,         \* history: traversal_time of every run of the candidate
    \* execute_single_sumo_run (sumo_interface.py)
    trial_pc,                   \* where execute_single_sumo_run is
    num_simulation_steps,
    step,
    session,                    \* the TraCI connection to the simulator
    car0_traj,
    ped1_traj,
    ped2_traj,
    sim_time_car0_enters_j2,
    sim_time_car0_exits_j2,
    car0_on_j2_segment,
    car0_observed,              \* history: what each step reported of car_0
    ret,                        \* (pet1, pet2, av_j2_traversal_time) returned
    raised                      \* the exception that left execute_single_sumo_run

pet_vars == <<SHAPELY_AVAILABLE, vehicle_trajectory, pedestrian_trajectory,
              encroachment_area_polygon, T_veh, T_ped, pet, pet_pc>>

opt_vars == <<N_SIM_RUNS_PER_AV_SPEED, opt_pc, cand, i_run, current_sim_run_number,
              successful_pet_constraint_runs, run_traversal_times,
              optimization_summary, eligible_speeds, best_av_speed,
              best_traversal_time, best_prob_satisfaction, report,
              best_compromise, run_pet1s, run_pet2s, traversal_time_log>>

run_logs == <<run_pet1s, run_pet2s, traversal_time_log>>

trial_vars == <<trial_pc, num_simulation_steps, step, session, car0_traj,
                ped1_traj, ped2_traj, sim_time_car0_enters_j2,
                sim_time_car0_exits_j2, car0_on_j2_segment, car0_observed,
                ret, raised>>

selection_vars == <<eligible_speeds, best_av_speed, best_traversal_time,
                    best_prob_satisfaction, report, best_compromise>>

vars == <<pet_vars, opt_vars, trial_vars>>

----------------------------------------------------------------------------
(* Values *)

NoneT == [some |-> FALSE, v |-> 0]

Some(t) == [some |-> TRUE, v |-> t]

Inf == [inf |-> TRUE, v |-> 0]

Fin(p) == [inf |-> FALSE, v |-> p]

Min2(a, b) == IF a <= b THEN a ELSE b

Max2(a, b) == IF a >= b THEN a ELSE b

AllKeys == {"time", "x", "y"}

\* A trajectory point {'time': t, 'x': x, 'y': y}
Sample(t, p) == [keys |-> AllKeys, time |-> t, x |-> p[1], y |-> p[2]]

\* A trajectory point (a dict) that lacks the key k
Malformed(k) == [keys |-> AllKeys \ {k}, time |-> 0, x |-> 0, y |-> 0]

----------------------------------------------------------------------------
(* is_inside_polygon *)

\* x <= xinters, with xinters = (y - p1y) * (p2x - p1x) / (p2y - p1y) + p1x,
\* decided exactly (p1y # p2y wherever the code reads xinters: the guards
\* y > min(p1y, p2y) and y <= max(p1y, p2y) exclude a horizontal edge).
x_le_xinters(x, y, p1, p2) ==
    LET num == (y - p1[2]) * (p2[1] - p1[1])
        den == p2[2] - p1[2]
    IN  IF den > 0 THEN (x - p1[1]) * den <= num
                   ELSE (x - p1[1]) * den >= num

x_lt_xinters(x, y, p1, p2) ==
    LET num == (y - p1[2]) * (p2[1] - p1[1])
        den == p2[2] - p1[2]
    IN  IF den > 0 THEN (x - p1[1]) * den < num
                   ELSE (x - p1[1]) * den > num

\* The body of the ray casting loop: does the edge p1-p2 flip `inside`?
ray_flips(x, y, p1, p2) ==
    /\ y > Min2(p1[2], p2[2])
    /\ y <= Max2(p1[2], p2[2])
    /\ x <= Max2(p1[1], p2[1])
    /\ (p1[1] = p2[1] \/ x_le_xinters(x, y, p1, p2))

RECURSIVE ray_casting_from(_, _, _, _, _)
ray_casting_from(point, polygon_vertices, i, p1, inside) ==
    LET n == Len(polygon_vertices)
    IN  IF i > n THEN inside
        ELSE LET p2 == polygon_vertices[(i % n) + 1]
             IN  ray_casting_from(point, polygon_vertices, i + 1, p2,
                     IF ray_flips(point[1], point[2], p1, p2)
                     THEN ~inside ELSE inside)

\* The manual ray casting algorithm (for i in range(n + 1))
ray_casting(point, polygon_vertices) ==
    ray_casting_from(point, polygon_vertices, 0, polygon_vertices[1], FALSE)

\* Is point on the closed segment a-b?
on_segment(point, a, b) ==
    /\ (b[1] - a[1]) * (point[2] - a[2]) = (b[2] - a[2]) * (point[1] - a[1])
    /\ Min2(a[1], b[1]) <= point[1] /\ point[1] <= Max2(a[1], b[1])
    /\ Min2(a[2], b[2]) <= point[2] /\ point[2] <= Max2(a[2], b[2])

Edges(polygon_vertices) ==
    LET n == Len(polygon_vertices)
    IN  { <<polygon_vertices[i], polygon_vertices[(i % n) + 1]>> : i \in 1..n }

\* Shapely's Polygon(vertices).contains(Point(point)) for a valid (simple)
\* polygon: the point is in the polygon's interior, so not on its boundary,
\* and a ray from it crosses the boundary an odd number of times.
shapely_contains(polygon_vertices, point) ==
    /\ \A e \in Edges(polygon_vertices) : ~on_segment(point, e[1], e[2])
    /\ Cardinality({ i \in 1..Len(polygon_vertices) :
           LET a == polygon_vertices[i]
               b == polygon_vertices[(i % Len(polygon_vertices)) + 1]
           IN  /\ (a[2] > point[2]) # (b[2] > point[2])
               /\ x_lt_xinters(point[1], point[2], a, b) }) % 2 = 1

is_inside_polygon_degenerate_inside(point, polygon_vertices) ==
    IF Len(polygon_vertices) = 0 THEN FALSE
    ELSE IF Len(polygon_vertices) < 3 THEN TRUE
    ELSE IF SHAPELY_AVAILABLE THEN shapely_contains(polygon_vertices, point)
    ELSE ray_casting(point, polygon_vertices)

is_inside_polygon(point, polygon_vertices) ==
    IF Len(polygon_vertices) = 0 THEN FALSE
    ELSE IF SHAPELY_AVAILABLE
         THEN IF Len(polygon_vertices) < 3 THEN FALSE
              ELSE shapely_contains(polygon_vertices, point)
         ELSE IF Len(polygon_vertices) < 3 THEN FALSE
              ELSE ray_casting(point, polygon_vertices)

----------------------------------------------------------------------------
(* _get_entry_exit_times *)

\* get_coords_time raises ValueError: a key of 'x', 'y', 'time' is missing
get_coords_time_raises(point_data) == ~(AllKeys \subseteq point_data.keys)

\* get_coords_time's return value: ((x, y), time)
get_coords_time(point_data) ==
    [coords |-> <<point_data.x, point_data.y>>, time |-> point_data.time]

\* (t_prev + t_curr) / 2.0, exact on even sample times
midpoint(t_prev, t_curr) == (t_prev + t_curr) \div 2

entry_transition_at_curr(st, t_prev, t_curr) ==
    [st EXCEPT !.entry_time = IF st.entry_time = NoneT THEN Some(t_curr) ELSE @,
               !.currently_inside = TRUE]

\* Lines 95-98: a transition from outside to inside
entry_transition(st, t_prev, t_curr) ==
    [st EXCEPT !.entry_time = IF st.entry_time = NoneT
                              THEN Some(midpoint(t_prev, t_curr))
                              ELSE @,
               !.currently_inside = TRUE]

\* Lines 99-101: a transition from inside to outside (the break follows)
exit_transition_at_prev(st, t_prev, t_curr) ==
    [st EXCEPT !.exit_time = Some(t_prev),
               !.currently_inside = FALSE]

exit_transition_no_exit(st, t_prev, t_curr) ==
    [st EXCEPT !.currently_inside = FALSE]

exit_transition(st, t_prev, t_curr) ==
    [st EXCEPT !.exit_time = Some(midpoint(t_prev, t_curr)),
               !.currently_inside = FALSE]

\* The loop for i in range(1, len(trajectory)); i is the Python index of curr,
\* st the loop's variables. The result has returned = TRUE where the loop body
\* executed `return None, None`.
RECURSIVE scan_from(_, _, _, _)
scan_from(trajectory, area_polygon, i, st) ==
    IF i >= Len(trajectory) THEN st
    ELSE IF \/ get_coords_time_raises(trajectory[i])
            \/ get_coords_time_raises(trajectory[i + 1])
    THEN [st EXCEPT !.returned = TRUE]
    ELSE LET t_prev == get_coords_time(trajectory[i]).time
             curr == get_coords_time(trajectory[i + 1])
             is_p_curr_inside == is_inside_polygon(curr.coords, area_polygon)
         IN  IF ~st.currently_inside /\ is_p_curr_inside
             THEN scan_from(trajectory, area_polygon, i + 1,
                            entry_transition(st, t_prev, curr.time))
             ELSE IF st.currently_inside /\ ~is_p_curr_inside
             THEN exit_transition(st, t_prev, curr.time)     \* break
             ELSE scan_from(trajectory, area_polygon, i + 1, st)

\* Lines 104-130: what follows the loop
after_scan(trajectory, area_polygon, st) ==
    LET last == trajectory[Len(trajectory)]
        still_inside == /\ st.currently_inside
                        /\ st.entry_time # NoneT
                        /\ st.exit_time = NoneT
    IN  IF still_inside /\ get_coords_time_raises(last)
        THEN [entry |-> st.entry_time, exit |-> NoneT]
        ELSE LET exit1 == IF still_inside
                          THEN Some(get_coords_time(last).time)
                          ELSE st.exit_time
                 exit2 == IF Len(trajectory) = 1 /\ st.entry_time # NoneT
                          THEN st.entry_time
                          ELSE exit1
             IN  IF exit2 # NoneT /\ st.entry_time = NoneT
                 THEN IF get_coords_time_raises(trajectory[1])
                      THEN [entry |-> NoneT, exit |-> NoneT]
                      ELSE IF is_inside_polygon(
                                  get_coords_time(trajectory[1]).coords,
                                  area_polygon)
                      THEN IF exit2.v < trajectory[1].time
                           THEN [entry |-> NoneT, exit |-> NoneT]
                           ELSE [entry |-> Some(trajectory[1].time),
                                 exit |-> exit2]
                      ELSE [entry |-> NoneT, exit |-> NoneT]
                 ELSE IF /\ st.entry_time # NoneT
                         /\ exit2 # NoneT
                         /\ exit2.v < st.entry_time.v
                 THEN [entry |-> NoneT, exit |-> NoneT]
                 ELSE [entry |-> st.entry_time, exit |-> exit2]

_get_entry_exit_times(trajectory, area_polygon) ==
    IF Len(trajectory) = 0 \/ Len(area_polygon) = 0 \/ Len(area_polygon) < 3
    THEN [entry |-> NoneT, exit |-> NoneT]
    ELSE IF get_coords_time_raises(trajectory[1])
    THEN [entry |-> NoneT, exit |-> NoneT]
    ELSE LET start == get_coords_time(trajectory[1])
             start_inside == is_inside_polygon(start.coords, area_polygon)
             st0 == [entry_time |-> IF start_inside THEN Some(start.time)
                                                    ELSE NoneT,
                     exit_time |-> NoneT,
                     currently_inside |-> start_inside,
                     returned |-> FALSE]
             st == scan_from(trajectory, area_polygon, 1, st0)
         IN  IF st.returned THEN [entry |-> NoneT, exit |-> NoneT]
             ELSE after_scan(trajectory, area_polygon, st)

----------------------------------------------------------------------------
(* calculate_pet *)

overlap_pet_positive(latest_entry, earliest_exit) == earliest_exit - latest_entry

\* Line 153: the PET of overlapping occupancies
overlap_pet(latest_entry, earliest_exit) == latest_entry - earliest_exit

gap_pet_swapped(veh_entry, veh_exit, ped_entry, ped_exit) ==
    IF veh_exit <= ped_entry THEN veh_exit - ped_entry
    ELSE IF ped_exit <= veh_entry THEN ped_exit - veh_entry
    ELSE 0

gap_pet_else_second_gap(veh_entry, veh_exit, ped_entry, ped_exit) ==
    IF veh_exit <= ped_entry THEN ped_entry - veh_exit
    ELSE veh_entry - ped_exit

gap_pet_vehicle_first_only(veh_entry, veh_exit, ped_entry, ped_exit) ==
    IF veh_exit <= ped_entry THEN ped_entry - veh_exit
    ELSE 0

\* Lines 155-160: the PET of occupancies that do not overlap
gap_pet(veh_entry, veh_exit, ped_entry, ped_exit) ==
    IF veh_exit <= ped_entry THEN ped_entry - veh_exit
    ELSE IF ped_exit <= veh_entry THEN veh_entry - ped_exit
    ELSE 0

pet_of_intervals_vehicle_only(veh, ped) ==
    IF veh.entry = NoneT \/ veh.exit = NoneT
    THEN Inf
    ELSE LET latest_entry == Max2(veh.entry.v, ped.entry.v)
             earliest_exit == Min2(veh.exit.v, ped.exit.v)
         IN  IF latest_entry < earliest_exit
             THEN Fin(overlap_pet(latest_entry, earliest_exit))
             ELSE Fin(gap_pet(veh.entry.v, veh.exit.v, ped.entry.v, ped.exit.v))

\* Lines 145-161, on the two intervals
pet_of_intervals(veh, ped) ==
    IF veh.entry = NoneT \/ veh.exit = NoneT \/ ped.entry = NoneT \/ ped.exit = NoneT
    THEN Inf
    ELSE LET latest_entry == Max2(veh.entry.v, ped.entry.v)
             earliest_exit == Min2(veh.exit.v, ped.exit.v)
         IN  IF latest_entry < earliest_exit
             THEN Fin(overlap_pet(latest_entry, earliest_exit))
             ELSE Fin(gap_pet(veh.entry.v, veh.exit.v, ped.entry.v, ped.exit.v))

\* calculate_pet's return value. Its setdefault('speed'), setdefault('id') on
\* every point add tags that nothing of the computation reads.
calculate_pet(veh_trajectory, ped_trajectory, area_polygon) ==
    pet_of_intervals(_get_entry_exit_times(veh_trajectory, area_polygon),
                     _get_entry_exit_times(ped_trajectory, area_polygon))

----------------------------------------------------------------------------
(* execute_single_sumo_run. One time unit is one step length (0.1 s), so a  *)
(* half unit is 0.05 s; lengths are in centimetres.                         *)

MaxSteps == 2       \* Spec: num_simulation_steps (200 in the program)

MaxTrialSteps == 4  \* SpecTrial: num_simulation_steps

\* -1.0 (seconds), the value of a time that was not measured
NO_TIME == -20

\* ENCROACHMENT_AREA_PED1_DEFAULT, ENCROACHMENT_AREA_PED2_DEFAULT
ENCROACHMENT_AREA_PED1_DEFAULT ==
    <<<<-762, 2746>>, <<-539, 2746>>, <<-539, 2946>>, <<-762, 2946>>>>

ENCROACHMENT_AREA_PED2_DEFAULT ==
    <<<<-762, 1906>>, <<-539, 1906>>, <<-539, 2106>>, <<-762, 2106>>>>

J2_INTERNAL_LANE_ID == ":J2_4_0"

\* What the simulator reports in one step: for each of car_0, ped_1, ped_2
\* whether it is in the ID list and where, and car_0's lane
Absent == [present |-> FALSE, pos |-> <<0, 0>>, lane |-> ""]

At(pos, lane) == [present |-> TRUE, pos |-> pos, lane |-> lane]

InArea1 == <<-650, 2846>>

InArea2 == <<-650, 2006>>

InNoArea == <<-650, 2400>>

Observations ==
    { [car |-> Absent, ped1 |-> Absent, ped2 |-> Absent],
      [car |-> At(InArea1, J2_INTERNAL_LANE_ID), ped1 |-> At(InArea1, ""),
       ped2 |-> At(InNoArea, "")],
      [car |-> At(InNoArea, "E1_0"), ped1 |-> At(InNoArea, ""),
       ped2 |-> At(InArea2, "")],
      [car |-> At(InNoArea, J2_INTERNAL_LANE_ID), ped1 |-> Absent, ped2 |-> Absent] }

\* Exceptions of the collaborator: traci.start raises any of them,
\* traci.simulation.getTime and traci.simulationStep the last two
\* ("Exception" is any other subclass of Exception)
StartFailures == {"FileNotFoundError", "TraCIException", "Exception"}

StepFailures == {"TraCIException", "Exception"}

\* traci.simulation.getTime() at the start of step s
sim_time(s) == 2 * s

handler_catches_traci_only(exc) == exc = "TraCIException"

\* Lines 226-235: the except clauses of execute_single_sumo_run
handler_catches(exc) == exc \in {"TraCIException", "FileNotFoundError", "Exception"}

\* The value the except clauses return
degraded_outcome == [pet1 |-> Inf, pet2 |-> Inf, traversal |-> NO_TIME]

finally_close_never(sess) == sess

\* Lines 236-238: finally, traci.close() if a connection is loaded
finally_close(sess) == IF sess = "open" THEN "closed" ELSE sess

\* Lines 103-109: the locals of execute_single_sumo_run
TrialLocalsInit ==
    /\ step' = 0
    /\ car0_traj' = <<>>
    /\ ped1_traj' = <<>>
    /\ ped2_traj' = <<>>
    /\ sim_time_car0_enters_j2' = NO_TIME
    /\ sim_time_car0_exits_j2' = NO_TIME
    /\ car0_on_j2_segment' = FALSE
    /\ car0_observed' = <<>>

\* An exception exc reaches the try statement of lines 118-238: an except
\* clause returns the degraded outcome, or exc leaves the function; the
\* finally clause runs either way
Raise(exc) ==
    /\ IF handler_catches(exc)
       THEN ret' = degraded_outcome /\ raised' = "none"
       ELSE ret' = ret /\ raised' = exc
    /\ session' = finally_close(session)
    /\ trial_pc' = "returned"

\* Line 119: traci.start(sumo_command)
TraciStart ==
    /\ trial_pc = "start"
    /\ \/ /\ session' = "open"
          /\ trial_pc' = "loop"
          /\ UNCHANGED <<ret, raised>>
       \/ \E exc \in StartFailures : Raise(exc)
    /\ UNCHANGED <<step, car0_traj, ped1_traj, ped2_traj, sim_time_car0_enters_j2,
                   sim_time_car0_exits_j2, car0_on_j2_segment,
                   car0_observed, num_simulation_steps>>
    /\ UNCHANGED <<pet_vars, opt_vars>>

append_sample(traj, t, o) ==
    IF o.present THEN Append(traj, Sample(t, o.pos)) ELSE traj

\* Lines 124-190: one iteration of the simulation loop
SimulationStep ==
    /\ trial_pc = "loop"
    /\ step < num_simulation_steps
    /\ \/ \E o \in Observations :
            LET current_sim_time == sim_time(step)
                on_j2 == o.car.present /\ o.car.lane = J2_INTERNAL_LANE_ID
                off_j2 == o.car.present /\ o.car.lane # J2_INTERNAL_LANE_ID
            IN  /\ car0_traj' = append_sample(car0_traj, current_sim_time, o.car)
                /\ ped1_traj' = append_sample(ped1_traj, current_sim_time, o.ped1)
                /\ ped2_traj' = append_sample(ped2_traj, current_sim_time, o.ped2)
                /\ sim_time_car0_enters_j2' =
                       IF on_j2 /\ ~car0_on_j2_segment THEN current_sim_time
                       ELSE sim_time_car0_enters_j2
                /\ car0_on_j2_segment' = (car0_on_j2_segment \/ on_j2)
                /\ sim_time_car0_exits_j2' =
                       IF off_j2 /\ car0_on_j2_segment /\ sim_time_car0_exits_j2 = NO_TIME
                       THEN current_sim_time
                       ELSE sim_time_car0_exits_j2
                /\ car0_observed' = Append(car0_observed, o.car)
                /\ step' = step + 1
                /\ UNCHANGED <<trial_pc, session, ret, raised, num_simulation_steps>>
       \/ /\ \E exc \in StepFailures : Raise(exc)
          /\ UNCHANGED <<step, car0_traj, ped1_traj, ped2_traj, sim_time_car0_enters_j2,
                         sim_time_car0_exits_j2, car0_on_j2_segment,
                   car0_observed, num_simulation_steps>>
    /\ UNCHANGED <<pet_vars, opt_vars>>

av_j2_traversal_time_to_the_end ==
    IF sim_time_car0_enters_j2 = NO_TIME THEN NO_TIME
    ELSE IF sim_time_car0_exits_j2 # NO_TIME
    THEN sim_time_car0_exits_j2 - sim_time_car0_enters_j2
    ELSE sim_time(step) - sim_time_car0_enters_j2

\* Lines 192-201: the J2 traversal time
av_j2_traversal_time ==
    IF sim_time_car0_enters_j2 # NO_TIME /\ sim_time_car0_exits_j2 # NO_TIME
    THEN sim_time_car0_exits_j2 - sim_time_car0_enters_j2
    ELSE NO_TIME

\* Lines 211-221: a PET, inf when a trajectory is empty
pet_or_inf(car_traj, ped_traj, area) ==
    IF Len(car_traj) > 0 /\ Len(ped_traj) > 0
    THEN calculate_pet(car_traj, ped_traj, area)
    ELSE Inf

\* Lines 192-224 and 236-238: the loop is over, the outcome is returned
FinishRun ==
    /\ trial_pc = "loop"
    /\ step = num_simulation_steps
    /\ ret' = [pet1 |-> pet_or_inf(car0_traj, ped1_traj, ENCROACHMENT_AREA_PED1_DEFAULT),
               pet2 |-> pet_or_inf(car0_traj, ped2_traj, ENCROACHMENT_AREA_PED2_DEFAULT),
               traversal |-> av_j2_traversal_time]
    /\ raised' = "none"
    /\ session' = finally_close(session)
    /\ trial_pc' = "returned"
    /\ UNCHANGED <<step, car0_traj, ped1_traj, ped2_traj, sim_time_car0_enters_j2,
                   sim_time_car0_exits_j2, car0_on_j2_segment,
                   car0_observed, num_simulation_steps>>
    /\ UNCHANGED <<pet_vars, opt_vars>>

----------------------------------------------------------------------------
(* run_optimizer *)

AV_MIN_SPEED_MPS == 5

AV_MAX_SPEED_MPS == 15

NUM_AV_SPEED_STEPS == 3

MaxRuns == 1        \* Spec: N_SIM_RUNS_PER_AV_SPEED (5 in the program)

MaxOptRuns == 2     \* SpecOpt, SpecSelect: N_SIM_RUNS_PER_AV_SPEED

\* 2.0 s, in half units of 0.05 s
PET_CONSTRAINT_THRESHOLD == 40

\* 0.90
PROB_CONSTRAINT_SATISFIED_THRESHOLD == [num |-> 9, den |-> 10]

\* np.linspace(AV_MIN_SPEED_MPS, AV_MAX_SPEED_MPS, NUM_AV_SPEED_STEPS), each
\* speed as its numerator over the denominator NUM_AV_SPEED_STEPS - 1 (over 1
\* when there is one step)
candidate_av_speeds ==
    [c \in 1..NUM_AV_SPEED_STEPS |->
        AV_MIN_SPEED_MPS * Max2(NUM_AV_SPEED_STEPS - 1, 1)
            + (c - 1) * (AV_MAX_SPEED_MPS - AV_MIN_SPEED_MPS)]

RECURSIVE GCD(_, _)
GCD(a, b) == IF b = 0 THEN a ELSE GCD(b, a % b)

RECURSIVE SeqSum(_)
SeqSum(q) == IF Len(q) = 0 THEN 0 ELSE Head(q) + SeqSum(Tail(q))

\* A rational number in lowest terms, den > 0 (num >= 0 where it is used)
Rat(num, den) == LET g == GCD(num, den) IN [num |-> num \div g, den |-> den \div g]

mean_traversal_time_over_all_runs(times) ==
    IF Len(times) > 0 THEN Rat(SeqSum(times), N_SIM_RUNS_PER_AV_SPEED)
    ELSE [num |-> NO_TIME, den |-> 1]

\* Lines 104-106: -1.0 or np.mean(run_traversal_times)
mean_traversal_time(times) ==
    IF Len(times) > 0 THEN Rat(SeqSum(times), Len(times))
    ELSE [num |-> NO_TIME, den |-> 1]

meets_threshold_finite_only(p) == ~p.inf /\ p.v >= PET_CONSTRAINT_THRESHOLD

\* Line 98: pet >= PET_CONSTRAINT_THRESHOLD (float('inf') >= threshold is True)
meets_threshold(p) == p.inf \/ p.v >= PET_CONSTRAINT_THRESHOLD

NoReturn == [pet1 |-> Inf, pet2 |-> Inf, traversal |-> 0]

\* float('inf') and -1.0 among the rationals
InfRat == [num |-> 1, den |-> 0]

MinusOne == [num |-> NO_TIME, den |-> 1]

\* a < b on rationals with den >= 0, InfRat included
RatLess(a, b) == a.num * b.den < b.num * a.den

\* -1.0 as a speed (a numerator over the denominator of candidate_av_speeds)
\* and as a probability (a numerator over N_SIM_RUNS_PER_AV_SPEED)
NO_SPEED == -Max2(NUM_AV_SPEED_STEPS - 1, 1)

NO_PROB == -N_SIM_RUNS_PER_AV_SPEED

NoCompromise == [av_speed |-> NO_SPEED, prob_constraint_satisfied |-> NO_PROB,
                 avg_traversal_time |-> MinusOne]

\* Lines 118-120, and the names of lines 122-150 before they are bound
SelectionInit ==
    /\ eligible_speeds = <<>>
    /\ best_av_speed = NO_SPEED
    /\ best_traversal_time = InfRat
    /\ best_prob_satisfaction = NO_PROB
    /\ report = "none yet"
    /\ best_compromise = NoCompromise

\* No call of execute_single_sumo_run is active
TrialIdle ==
    /\ trial_pc = "idle"
    /\ step = 0
    /\ car0_traj = <<>>
    /\ ped1_traj = <<>>
    /\ ped2_traj = <<>>
    /\ sim_time_car0_enters_j2 = NO_TIME
    /\ sim_time_car0_exits_j2 = NO_TIME
    /\ car0_on_j2_segment = FALSE
    /\ car0_observed = <<>>
    /\ ret = NoReturn
    /\ raised = "none"

\* Lines 55-61: run_optimizer up to its loop over the candidates
InitOptimizer ==
    /\ N_SIM_RUNS_PER_AV_SPEED = MaxRuns
    /\ opt_pc = "candidates"
    /\ cand = 1
    /\ i_run = 0
    /\ current_sim_run_number = 0
    /\ successful_pet_constraint_runs = 0
    /\ run_traversal_times = <<>>
    /\ optimization_summary = <<>>
    /\ SelectionInit
    /\ run_pet1s = <<>>
    /\ run_pet2s = <<>>
    /\ traversal_time_log = <<>>
    /\ session = "closed"
    /\ num_simulation_steps = MaxSteps
    /\ TrialIdle

BeginCandidate_keeps_accumulators ==
    /\ opt_pc = "candidates"
    /\ cand <= NUM_AV_SPEED_STEPS
    /\ i_run' = 0
    /\ opt_pc' = "runs"
    /\ run_pet1s' = <<>>
    /\ run_pet2s' = <<>>
    /\ traversal_time_log' = <<>>
    /\ UNCHANGED <<N_SIM_RUNS_PER_AV_SPEED, cand, current_sim_run_number,
                   optimization_summary, run_traversal_times,
                   successful_pet_constraint_runs>>
    /\ UNCHANGED selection_vars
    /\ UNCHANGED <<pet_vars, trial_vars>>

\* Lines 63-69: the next av_speed, with fresh accumulators
BeginCandidate ==
    /\ opt_pc = "candidates"
    /\ cand <= NUM_AV_SPEED_STEPS
    /\ run_traversal_times' = <<>>
    /\ successful_pet_constraint_runs' = 0
    /\ i_run' = 0
    /\ opt_pc' = "runs"
    /\ run_pet1s' = <<>>
    /\ run_pet2s' = <<>>
    /\ traversal_time_log' = <<>>
    /\ UNCHANGED <<N_SIM_RUNS_PER_AV_SPEED, cand, current_sim_run_number,
                   optimization_summary>>
    /\ UNCHANGED selection_vars
    /\ UNCHANGED <<pet_vars, trial_vars>>

\* Lines 71-89: the next run of the candidate calls execute_single_sumo_run
\* (the pedestrian speeds it samples go to the simulator alone)
BeginRun ==
    /\ opt_pc = "runs"
    /\ i_run < N_SIM_RUNS_PER_AV_SPEED
    /\ current_sim_run_number' = current_sim_run_number + 1
    /\ opt_pc' = "call"
    /\ trial_pc' = "start"
    /\ TrialLocalsInit
    /\ UNCHANGED <<session, ret, raised, num_simulation_steps>>
    /\ UNCHANGED <<N_SIM_RUNS_PER_AV_SPEED, cand, i_run,
                   successful_pet_constraint_runs, run_traversal_times,
                   optimization_summary>>
    /\ UNCHANGED run_logs
    /\ UNCHANGED selection_vars
    /\ UNCHANGED pet_vars

\* Lines 81-99: execute_single_sumo_run is back. Its outcome is accumulated;
\* an exception that left it leaves run_optimizer too, which catches nothing.
\* (run_pet1s and run_pet2s are appended to and never read.)
RecordRun ==
    /\ opt_pc = "call"
    /\ trial_pc = "returned"
    /\ IF raised # "none"
       THEN /\ opt_pc' = "crashed"
            /\ UNCHANGED <<i_run, successful_pet_constraint_runs, run_traversal_times>>
            /\ UNCHANGED run_logs
       ELSE /\ run_traversal_times' =
                   IF ret.traversal >= 0 THEN Append(run_traversal_times, ret.traversal)
                   ELSE run_traversal_times
            /\ successful_pet_constraint_runs' =
                   IF meets_threshold(ret.pet1) /\ meets_threshold(ret.pet2)
                   THEN successful_pet_constraint_runs + 1
                   ELSE successful_pet_constraint_runs
            /\ i_run' = i_run + 1
            /\ run_pet1s' = Append(run_pet1s, ret.pet1)
            /\ run_pet2s' = Append(run_pet2s, ret.pet2)
            /\ traversal_time_log' = Append(traversal_time_log, ret.traversal)
            /\ opt_pc' = "runs"
    /\ trial_pc' = "idle"
    /\ TrialLocalsInit
    /\ ret' = NoReturn
    /\ raised' = "none"
    /\ UNCHANGED <<session, num_simulation_steps, N_SIM_RUNS_PER_AV_SPEED, cand,
                   current_sim_run_number, optimization_summary>>
    /\ UNCHANGED selection_vars
    /\ UNCHANGED pet_vars

\* Lines 101-108: the candidate's statistics. prob_constraint_satisfied is
\* kept as its numerator over N_SIM_RUNS_PER_AV_SPEED
FinalizeCandidate ==
    /\ opt_pc = "runs"
    /\ i_run = N_SIM_RUNS_PER_AV_SPEED
    /\ optimization_summary' = Append(optimization_summary,
           [av_speed |-> candidate_av_speeds[cand],
            prob_constraint_satisfied |-> successful_pet_constraint_runs,
            avg_traversal_time |-> mean_traversal_time(run_traversal_times)])
    /\ cand' = cand + 1
    /\ opt_pc' = "candidates"
    /\ UNCHANGED <<N_SIM_RUNS_PER_AV_SPEED, i_run, current_sim_run_number,
                   successful_pet_constraint_runs, run_traversal_times>>
    /\ UNCHANGED run_logs
    /\ UNCHANGED selection_vars
    /\ UNCHANGED <<pet_vars, trial_vars>>

is_eligible_above_zero(k) == k > 0

\* Line 126: prob_cs >= PROB_CONSTRAINT_SATISFIED_THRESHOLD, prob_cs being
\* k / N_SIM_RUNS_PER_AV_SPEED
is_eligible(k) ==
    k * PROB_CONSTRAINT_SATISFIED_THRESHOLD.den
        >= PROB_CONSTRAINT_SATISFIED_THRESHOLD.num * N_SIM_RUNS_PER_AV_SPEED

\* Lines 124-127: the eligible candidates, in the order of the summary
RECURSIVE eligible_of(_)
eligible_of(summary) ==
    IF Len(summary) = 0 THEN <<>>
    ELSE LET e == Head(summary)
             rest == eligible_of(Tail(summary))
         IN  IF is_eligible(e.prob_constraint_satisfied)
             THEN <<[av_s |-> e.av_speed, avg_tt |-> e.avg_traversal_time,
                     prob_cs |-> e.prob_constraint_satisfied]>> \o rest
             ELSE rest

sort_key_sentinel_first(x) == <<x.avg_tt, -x.av_s>>

\* Line 131: the sort key (x[1] if x[1] != -1.0 else float('inf'), -x[0])
sort_key(x) == <<IF x.avg_tt # MinusOne THEN x.avg_tt ELSE InfRat, -x.av_s>>

sort_key_less(a, b) ==
    \/ RatLess(sort_key(a)[1], sort_key(b)[1])
    \/ /\ ~RatLess(sort_key(b)[1], sort_key(a)[1])
       /\ sort_key(a)[2] < sort_key(b)[2]

\* x put into a sorted list behind every element that is not greater
RECURSIVE insert_sorted(_, _)
insert_sorted(x, sorted) ==
    IF Len(sorted) = 0 THEN <<x>>
    ELSE IF sort_key_less(x, Head(sorted)) THEN <<x>> \o sorted
    ELSE <<Head(sorted)>> \o insert_sorted(x, Tail(sorted))

\* eligible_speeds.sort(key=...): a stable sort, ascending
RECURSIVE sort_eligible(_)
sort_eligible(q) ==
    IF Len(q) = 0 THEN <<>>
    ELSE insert_sorted(q[Len(q)], sort_eligible(SubSeq(q, 1, Len(q) - 1)))

\* Line 150: the key (x[1], -x[2] if x[2] != -1.0 else float('inf')) of max;
\* compromise_key_less(a, b) is key(a) < key(b)
compromise_key_less(a, b) ==
    \/ a.prob_constraint_satisfied < b.prob_constraint_satisfied
    \/ /\ a.prob_constraint_satisfied = b.prob_constraint_satisfied
       /\ IF b.avg_traversal_time = MinusOne
          THEN a.avg_traversal_time # MinusOne
          ELSE /\ a.avg_traversal_time # MinusOne
               /\ RatLess(b.avg_traversal_time, a.avg_traversal_time)

\* max(optimization_summary, key=...): the first element of the greatest key
RECURSIVE max_from(_, _, _)
max_from(summary, i, best) ==
    IF i > Len(summary) THEN best
    ELSE max_from(summary, i + 1,
                  IF compromise_key_less(best, summary[i]) THEN summary[i] ELSE best)

\* Lines 118-153: the choice of the result and its report
SelectOptimal ==
    /\ opt_pc = "candidates"
    /\ cand > NUM_AV_SPEED_STEPS
    /\ LET sorted == sort_eligible(eligible_of(optimization_summary))
           found == Len(sorted) > 0
       IN  /\ eligible_speeds' = sorted
           /\ best_av_speed' = IF found THEN sorted[1].av_s ELSE NO_SPEED
           /\ best_traversal_time' = IF found THEN sorted[1].avg_tt ELSE InfRat
           /\ best_prob_satisfaction' = IF found THEN sorted[1].prob_cs ELSE NO_PROB
           /\ report' = IF best_av_speed' # NO_SPEED THEN "Optimal AV Speed Found"
                                                      ELSE "No AV Speed Found"
           /\ best_compromise' =
                  IF best_av_speed' = NO_SPEED /\ Len(optimization_summary) > 0
                  THEN max_from(optimization_summary, 2, optimization_summary[1])
                  ELSE NoCompromise
    /\ opt_pc' = "done"
    /\ UNCHANGED <<N_SIM_RUNS_PER_AV_SPEED, cand, i_run, current_sim_run_number,
                   successful_pet_constraint_runs, run_traversal_times,
                   optimization_summary>>
    /\ UNCHANGED run_logs
    /\ UNCHANGED <<pet_vars, trial_vars>>

----------------------------------------------------------------------------
(* Inputs of calculate_pet *)

MaxLen == 3         \* SpecOcc: samples of the vehicle trajectory

MaxTime == 2        \* SpecOcc: sample times are 0..MaxTime time units

MaxPairLen == 2     \* SpecPET: samples of each trajectory

MaxPairTime == 2    \* SpecPET: sample times are 0..MaxPairTime time units

\* encroachment_area of the tests (pet_calculator.py:164)
encroachment_area == <<<<0, 0>>, <<10, 0>>, <<10, 10>>, <<0, 10>>>>

\* non_rect_area of the manual test (pet_calculator.py:348)
non_rect_area == <<<<0, 0>>, <<10, 5>>, <<5, 10>>, <<0, 5>>>>

\* Polygons with fewer than 3 vertices
DegeneratePolygons == {<<>>, <<<<0, 0>>>>, <<<<0, 0>>, <<10, 0>>>>}

\* Outside both areas, inside both, on an edge of encroachment_area and a
\* vertex of non_rect_area, a vertex of both, on the top edge of
\* encroachment_area and a vertex of non_rect_area
OccPoints == {<<-5, 5>>, <<5, 5>>, <<10, 5>>, <<0, 0>>, <<5, 10>>}

PairPoints == {<<-5, 5>>, <<5, 5>>}

\* Sample times: even numbers of half units
SampleTimes(m) == { 2 * k : k \in 0..m }

Samples(times, points, missing) ==
    { Sample(t, p) : t \in times, p \in points } \cup { Malformed(k) : k \in missing }

\* Times never decrease along a trajectory (the samples that have a time)
NonDecreasing(trajectory) ==
    \A i, j \in 1..Len(trajectory) :
        (i < j /\ "time" \in trajectory[i].keys /\ "time" \in trajectory[j].keys)
            => trajectory[i].time <= trajectory[j].time

Trajectories(maxlen, samples) ==
    UNION { { tr \in [1..n -> samples] : NonDecreasing(tr) } : n \in 0..maxlen }

\* pedestrian_traj1 of the tests (pet_calculator.py:170-172): interval (3.5, 4.5)
pedestrian_traj1 ==
    <<Sample(6, <<5, -5>>), Sample(8, <<5, 5>>), Sample(10, <<5, 15>>)>>

NoInterval == [entry |-> NoneT, exit |-> NoneT]

InitResults ==
    /\ T_veh = NoInterval
    /\ T_ped = NoInterval
    /\ pet = Inf
    /\ pet_pc = "call"

\* run_optimizer is not running
OptimizerOff ==
    /\ N_SIM_RUNS_PER_AV_SPEED = MaxRuns
    /\ opt_pc = "off"
    /\ cand = 1
    /\ i_run = 0
    /\ current_sim_run_number = 0
    /\ successful_pet_constraint_runs = 0
    /\ run_traversal_times = <<>>
    /\ optimization_summary = <<>>
    /\ SelectionInit
    /\ run_pet1s = <<>>
    /\ run_pet2s = <<>>
    /\ traversal_time_log = <<>>
    /\ session = "closed"
    /\ num_simulation_steps = MaxSteps
    /\ TrialIdle

\* One trajectory in detail (boundary points, each missing key), against the
\* tests' pedestrian
InitOcc ==
    /\ SHAPELY_AVAILABLE \in BOOLEAN
    /\ vehicle_trajectory \in
           Trajectories(MaxLen, Samples(SampleTimes(MaxTime), OccPoints, AllKeys))
    /\ pedestrian_trajectory = pedestrian_traj1
    /\ encroachment_area_polygon \in
           {encroachment_area, non_rect_area} \cup DegeneratePolygons
    /\ InitResults
    /\ OptimizerOff

\* Pairs of trajectories
InitPET ==
    /\ SHAPELY_AVAILABLE \in BOOLEAN
    /\ vehicle_trajectory \in
           Trajectories(MaxPairLen, Samples(SampleTimes(MaxPairTime), PairPoints, {"time"}))
    /\ pedestrian_trajectory \in
           Trajectories(MaxPairLen, Samples(SampleTimes(MaxPairTime), PairPoints, {"x"}))
    /\ encroachment_area_polygon \in {encroachment_area} \cup DegeneratePolygons
    /\ InitResults
    /\ OptimizerOff

\* calculate_pet(vehicle_trajectory, pedestrian_trajectory, encroachment_area_polygon)
CalculatePet ==
    /\ pet_pc = "call"
    /\ T_veh' = _get_entry_exit_times(vehicle_trajectory, encroachment_area_polygon)
    /\ T_ped' = _get_entry_exit_times(pedestrian_trajectory, encroachment_area_polygon)
    /\ pet' = pet_of_intervals(T_veh', T_ped')
    /\ pet_pc' = "done"
    /\ UNCHANGED <<SHAPELY_AVAILABLE, vehicle_trajectory, pedestrian_trajectory,
                   encroachment_area_polygon>>
    /\ UNCHANGED <<opt_vars, trial_vars>>

NextPET == CalculatePet

SpecOcc == InitOcc /\ [][NextPET]_vars

SpecPET == InitPET /\ [][NextPET]_vars

\* run_optimizer from its start; calculate_pet is called inside the runs
Init ==
    /\ SHAPELY_AVAILABLE \in BOOLEAN
    /\ vehicle_trajectory = <<>>
    /\ pedestrian_trajectory = <<>>
    /\ encroachment_area_polygon = <<>>
    /\ T_veh = NoInterval
    /\ T_ped = NoInterval
    /\ pet = Inf
    /\ pet_pc = "off"
    /\ InitOptimizer

Next ==
    \/ BeginCandidate
    \/ BeginRun
    \/ TraciStart
    \/ SimulationStep
    \/ FinishRun
    \/ RecordRun
    \/ FinalizeCandidate
    \/ SelectOptimal

Spec == Init /\ [][Next]_vars

\* calculate_pet is not being called on its own
PetOff ==
    /\ SHAPELY_AVAILABLE \in BOOLEAN
    /\ vehicle_trajectory = <<>>
    /\ pedestrian_trajectory = <<>>
    /\ encroachment_area_polygon = <<>>
    /\ T_veh = NoInterval
    /\ T_ped = NoInterval
    /\ pet = Inf
    /\ pet_pc = "off"

\* One call of execute_single_sumo_run on its own, with more steps
InitTrial ==
    /\ PetOff
    /\ N_SIM_RUNS_PER_AV_SPEED = MaxRuns
    /\ opt_pc = "off"
    /\ cand = 1
    /\ i_run = 0
    /\ current_sim_run_number = 0
    /\ successful_pet_constraint_runs = 0
    /\ run_traversal_times = <<>>
    /\ optimization_summary = <<>>
    /\ SelectionInit
    /\ run_pet1s = <<>>
    /\ run_pet2s = <<>>
    /\ traversal_time_log = <<>>
    /\ session = "closed"
    /\ num_simulation_steps = MaxTrialSteps
    /\ trial_pc = "start"
    /\ step = 0
    /\ car0_traj = <<>>
    /\ ped1_traj = <<>>
    /\ ped2_traj = <<>>
    /\ sim_time_car0_enters_j2 = NO_TIME
    /\ sim_time_car0_exits_j2 = NO_TIME
    /\ car0_on_j2_segment = FALSE
    /\ car0_observed = <<>>
    /\ ret = NoReturn
    /\ raised = "none"

NextTrial == TraciStart \/ SimulationStep \/ FinishRun

SpecTrial == InitTrial /\ [][NextTrial]_vars

\* What a call of execute_single_sumo_run can return to run_optimizer: the
\* degraded outcome; PETs at the threshold (2.0 s) and above; a PET below it
\* (1.9 s, an overlap) for either pedestrian; traversal times measured or not
Outcomes ==
    { degraded_outcome,
      [pet1 |-> Fin(40), pet2 |-> Inf, traversal |-> 2],
      [pet1 |-> Fin(38), pet2 |-> Inf, traversal |-> 4],
      [pet1 |-> Inf, pet2 |-> Fin(-2), traversal |-> NO_TIME],
      [pet1 |-> Fin(42), pet2 |-> Fin(40), traversal |-> 4] }

\* Lines 224-235 seen from run_optimizer: the call returns an outcome
ReturnOutcome ==
    /\ opt_pc = "call"
    /\ trial_pc = "start"
    /\ ret' \in Outcomes
    /\ raised' = "none"
    /\ trial_pc' = "returned"
    /\ UNCHANGED <<num_simulation_steps, step, session, car0_traj, ped1_traj, ped2_traj,
                   sim_time_car0_enters_j2, sim_time_car0_exits_j2,
                   car0_on_j2_segment, car0_observed>>
    /\ UNCHANGED <<pet_vars, opt_vars>>

\* run_optimizer with more runs for each candidate, over the outcomes of the runs
InitOpt ==
    /\ PetOff
    /\ N_SIM_RUNS_PER_AV_SPEED = MaxOptRuns
    /\ opt_pc = "candidates"
    /\ cand = 1
    /\ i_run = 0
    /\ current_sim_run_number = 0
    /\ successful_pet_constraint_runs = 0
    /\ run_traversal_times = <<>>
    /\ optimization_summary = <<>>
    /\ SelectionInit
    /\ run_pet1s = <<>>
    /\ run_pet2s = <<>>
    /\ traversal_time_log = <<>>
    /\ session = "closed"
    /\ num_simulation_steps = MaxSteps
    /\ TrialIdle

NextOpt ==
    \/ BeginCandidate
    \/ BeginRun
    \/ ReturnOutcome
    \/ RecordRun
    \/ FinalizeCandidate
    \/ SelectOptimal

SpecOpt == InitOpt /\ [][NextOpt]_vars

MaxMetric == 3      \* SpecSelect: mean traversal times are 1..MaxMetric steps

\* The values avg_traversal_time takes in SpecSelect
Metrics == {MinusOne} \cup { [num |-> 2 * n, den |-> 1] : n \in 1..MaxMetric }

\* The summaries run_optimizer's loop over the candidates can leave
Summaries ==
    { q \in [1..NUM_AV_SPEED_STEPS ->
                [av_speed : { candidate_av_speeds[c] : c \in 1..NUM_AV_SPEED_STEPS },
                 prob_constraint_satisfied : 0..N_SIM_RUNS_PER_AV_SPEED,
                 avg_traversal_time : Metrics]] :
        \A c \in 1..NUM_AV_SPEED_STEPS : q[c].av_speed = candidate_av_speeds[c] }

\* run_optimizer behind its loop over the candidates (line 114), whatever the
\* runs gave
InitSelect ==
    /\ PetOff
    /\ N_SIM_RUNS_PER_AV_SPEED = MaxOptRuns
    /\ opt_pc = "candidates"
    /\ cand = NUM_AV_SPEED_STEPS + 1
    /\ i_run = N_SIM_RUNS_PER_AV_SPEED
    /\ current_sim_run_number = NUM_AV_SPEED_STEPS * N_SIM_RUNS_PER_AV_SPEED
    /\ optimization_summary \in Summaries
    /\ successful_pet_constraint_runs =
           optimization_summary[NUM_AV_SPEED_STEPS].prob_constraint_satisfied
    /\ run_traversal_times =
           IF optimization_summary[NUM_AV_SPEED_STEPS].avg_traversal_time = MinusOne
           THEN <<>>
           ELSE <<optimization_summary[NUM_AV_SPEED_STEPS].avg_traversal_time.num>>
    /\ SelectionInit
    /\ run_pet1s = <<>>
    /\ run_pet2s = <<>>
    /\ traversal_time_log = <<>>
    /\ session = "closed"
    /\ num_simulation_steps = MaxSteps
    /\ TrialIdle

NextSelect == SelectOptimal

SpecSelect == InitSelect /\ [][NextSelect]_vars

----------------------------------------------------------------------------
(* Claims: calculate_pet *)

Done == pet_pc = "done"

AllPresent ==
    /\ T_veh.entry # NoneT /\ T_veh.exit # NoneT
    /\ T_ped.entry # NoneT /\ T_ped.exit # NoneT

LatestEntry == Max2(T_veh.entry.v, T_ped.entry.v)

EarliestExit == Min2(T_veh.exit.v, T_ped.exit.v)

\* The time both agents occupy the area: the half units [t, t + 1) that lie in
\* both occupancy intervals
OverlapDuration ==
    Cardinality({ t \in Min2(T_veh.entry.v, T_ped.entry.v)..Max2(T_veh.exit.v, T_ped.exit.v) :
        /\ T_veh.entry.v <= t /\ t + 1 <= T_veh.exit.v
        /\ T_ped.entry.v <= t /\ t + 1 <= T_ped.exit.v })

\* The left-hand side of the directed line a-b holds p (> 0), the line holds p (= 0)
Cross(a, b, p) == (b[1] - a[1]) * (p[2] - a[2]) - (b[2] - a[2]) * (p[1] - a[1])

\* p lies strictly inside a convex polygon given counter-clockwise (as
\* encroachment_area and non_rect_area are)
StrictlyInside(p, polygon) ==
    /\ Len(polygon) >= 3
    /\ \A e \in Edges(polygon) : Cross(e[1], e[2], p) > 0

OnBoundary(p, polygon) ==
    /\ Len(polygon) >= 3
    /\ \E e \in Edges(polygon) : on_segment(p, e[1], e[2])

WellFormed(trajectory) ==
    \A i \in 1..Len(trajectory) : AllKeys \subseteq trajectory[i].keys

\* Every sample is well formed and lies strictly outside the polygon
OnlyOutside(trajectory, polygon) ==
    /\ WellFormed(trajectory)
    /\ \A i \in 1..Len(trajectory) :
           LET p == <<trajectory[i].x, trajectory[i].y>>
           IN  ~StrictlyInside(p, polygon) /\ ~OnBoundary(p, polygon)

\* C1: when all four bounds are present and max(entries) < min(exits), the PET
\* is max(entries) - min(exits), strictly negative, and its magnitude is the
\* time both agents occupy the area.
C1_OverlapPet ==
    (Done /\ AllPresent /\ LatestEntry < EarliestExit)
        => /\ pet = Fin(LatestEntry - EarliestExit)
           /\ pet.v < 0
           /\ -pet.v = OverlapDuration

\* The pedestrian enters while the vehicle occupies the area, a positive time
\* before the earlier of the two exits
C1_Witness ==
    /\ Done /\ AllPresent
    /\ T_veh.entry.v < T_ped.entry.v /\ T_ped.entry.v < T_veh.exit.v
    /\ T_ped.entry.v < T_ped.exit.v
    /\ pet = Fin(T_ped.entry.v - EarliestExit)
    /\ pet.v < 0

\* C2: when all four bounds are present and max(entries) >= min(exits), the PET
\* is non-negative and equals the later agent's entry minus the earlier agent's
\* exit; it is 0 when one agent's exit equals the other's entry.
C2_GapPet ==
    (Done /\ AllPresent /\ LatestEntry >= EarliestExit)
        => /\ ~pet.inf
           /\ pet.v >= 0
           /\ pet.v = LatestEntry - EarliestExit
           /\ (T_veh.exit.v <= T_ped.entry.v => pet.v = T_ped.entry.v - T_veh.exit.v)
           /\ (T_ped.exit.v <= T_veh.entry.v => pet.v = T_veh.entry.v - T_ped.exit.v)
           /\ ((T_veh.exit = T_ped.entry \/ T_ped.exit = T_veh.entry) => pet.v = 0)

\* The pedestrian leaves a positive time before the vehicle enters
C2_Witness ==
    /\ Done /\ AllPresent
    /\ T_ped.entry.v < T_ped.exit.v /\ T_ped.exit.v < T_veh.entry.v
    /\ T_veh.entry.v < T_veh.exit.v
    /\ pet = Fin(T_veh.entry.v - T_ped.exit.v)

\* C3: the PET is +infinity whenever a bound of either interval is absent, in
\* particular when a trajectory is empty or holds only samples outside the
\* polygon (a single one included), whatever the other trajectory is.
C3_InfiniteWhenAbsent ==
    Done => /\ (~AllPresent => pet = Inf)
            /\ (OnlyOutside(vehicle_trajectory, encroachment_area_polygon)
                    => T_veh = NoInterval /\ pet = Inf)
            /\ (OnlyOutside(pedestrian_trajectory, encroachment_area_polygon)
                    => T_ped = NoInterval /\ pet = Inf)

\* The pedestrian never enters, the vehicle occupies the area
C3_Witness ==
    /\ Done
    /\ Len(encroachment_area_polygon) >= 3
    /\ Len(pedestrian_trajectory) = 1
    /\ OnlyOutside(pedestrian_trajectory, encroachment_area_polygon)
    /\ T_veh.entry # NoneT /\ T_veh.exit # NoneT
    /\ pet = Inf

\* C4: calculate_pet gives the same value with the two agents swapped.
C4_SwapInvariant ==
    Done => calculate_pet(pedestrian_trajectory, vehicle_trajectory,
                          encroachment_area_polygon) = pet

\* The pedestrian is first, with a positive gap: the swapped call takes the
\* other branch of lines 155-158
C4_Witness ==
    /\ Done /\ AllPresent
    /\ T_ped.exit.v < T_veh.entry.v
    /\ pet.v > 0
    /\ calculate_pet(pedestrian_trajectory, vehicle_trajectory,
                     encroachment_area_polygon) = pet

\* An occupancy interval is (absent, absent) or two bounds with entry <= exit
ValidInterval(T) ==
    \/ T = NoInterval
    \/ T.entry # NoneT /\ T.exit # NoneT /\ T.entry.v <= T.exit.v

\* C5: _get_entry_exit_times returns (absent, absent) or two present bounds
\* with entry <= exit, never exactly one bound.
C5_IntervalValid == Done => ValidInterval(T_veh) /\ ValidInterval(T_ped)

\* A trajectory of three samples that enters the area and is still inside at
\* its last sample
C5_Witness ==
    /\ Done
    /\ Len(vehicle_trajectory) = 3
    /\ T_veh.entry # NoneT /\ T_veh.exit # NoneT
    /\ T_veh.entry.v < T_veh.exit.v
    /\ T_veh.exit.v = vehicle_trajectory[3].time
    /\ "time" \in vehicle_trajectory[3].keys

\* C6: is_inside_polygon is true exactly of the points strictly inside the
\* polygon, under both strategies, so a trajectory that is never strictly
\* inside yields (absent, absent) and PET = +infinity.
C6_StrictlyInside ==
    Done =>
        /\ \A p \in OccPoints :
               is_inside_polygon(p, encroachment_area_polygon)
                   <=> StrictlyInside(p, encroachment_area_polygon)
        /\ ( /\ WellFormed(vehicle_trajectory)
             /\ \A i \in 1..Len(vehicle_trajectory) :
                    ~StrictlyInside(<<vehicle_trajectory[i].x, vehicle_trajectory[i].y>>,
                                    encroachment_area_polygon) )
               => T_veh = NoInterval /\ pet = Inf

\* C7: with a polygon of fewer than 3 vertices every point is outside, every
\* interval is (absent, absent) and every PET is +infinity.
C7_DegeneratePolygon ==
    Len(encroachment_area_polygon) < 3 =>
        /\ \A p \in OccPoints : ~is_inside_polygon(p, encroachment_area_polygon)
        /\ Done => T_veh = NoInterval /\ T_ped = NoInterval /\ pet = Inf

\* Two well-formed trajectories that are at points inside encroachment_area,
\* against a polygon of two vertices
C7_Witness ==
    /\ Done
    /\ Len(encroachment_area_polygon) = 2
    /\ Len(vehicle_trajectory) = 2 /\ Len(pedestrian_trajectory) = 2
    /\ WellFormed(vehicle_trajectory) /\ WellFormed(pedestrian_trajectory)
    /\ \A i \in 1..2 :
           /\ StrictlyInside(<<vehicle_trajectory[i].x, vehicle_trajectory[i].y>>,
                             encroachment_area)
           /\ StrictlyInside(<<pedestrian_trajectory[i].x, pedestrian_trajectory[i].y>>,
                             encroachment_area)
    /\ pet = Inf

\* C8: a malformed sample at any position of a trajectory makes its interval
\* (absent, absent) and the PET +infinity.
C8_MalformedAborts ==
    Done =>
        /\ (~WellFormed(vehicle_trajectory) => T_veh = NoInterval /\ pet = Inf)
        /\ (~WellFormed(pedestrian_trajectory) => T_ped = NoInterval /\ pet = Inf)

----------------------------------------------------------------------------
(* Claims: execute_single_sumo_run and run_optimizer *)

\* execute_single_sumo_run returns from a failure: traci.start failed, or a
\* step of the simulation loop did
FailureReturn ==
    /\ trial_pc' = "returned"
    /\ \/ trial_pc = "start"
       \/ trial_pc = "loop" /\ step < num_simulation_steps

\* run_optimizer takes the outcome of a run
RunRecorded == opt_pc = "call" /\ trial_pc = "returned" /\ trial_pc' = "idle"

C10_SessionReleased ==
    /\ (trial_pc \in {"idle", "start", "returned"} => session = "closed")
    /\ (session = "open" => trial_pc = "loop" /\ opt_pc = "call")

\* The second run returns from a failure of a step, with the connection that
\* traci.start opened closed again
C10_Witness ==
    /\ current_sim_run_number = 2
    /\ trial_pc = "returned"
    /\ 0 < step /\ step < num_simulation_steps
    /\ session = "closed"

----------------------------------------------------------------------------
(* Claims: run_optimizer's statistics and its choice *)

\* Every monitored PET of run j of the candidate is at least the threshold,
\* +infinity being so
ConstraintSatisfied(j) ==
    \A p \in {run_pet1s[j], run_pet2s[j]} :
        p = Inf \/ (~p.inf /\ p.v >= PET_CONSTRAINT_THRESHOLD)

SatisfiedRuns == { j \in 1..Len(run_pet1s) : ConstraintSatisfied(j) }

\* The statistics of the candidate last finalized are in the summary, and the
\* outcomes of its runs still in the logs
JustFinalized == opt_pc \in {"candidates", "done"} /\ Len(optimization_summary) > 0

LastEntry == optimization_summary[Len(optimization_summary)]

\* C11: the count of a candidate's constraint-satisfied runs is the number of
\* its runs whose pet1 and pet2 are both >= the threshold (+infinity counts);
\* the probability is that count k over N, 0 <= k <= N, and it is N/N when
\* every run of the candidate gave +infinity for both PETs.
C11_EmpiricalProbability ==
    /\ opt_pc \in {"runs", "call"} =>
           /\ Len(run_pet1s) = i_run /\ Len(run_pet2s) = i_run
           /\ successful_pet_constraint_runs = Cardinality(SatisfiedRuns)
    /\ JustFinalized =>
           /\ Len(run_pet1s) = N_SIM_RUNS_PER_AV_SPEED
           /\ LastEntry.prob_constraint_satisfied = Cardinality(SatisfiedRuns)
           /\ (\A j \in 1..Len(run_pet1s) : run_pet1s[j] = Inf /\ run_pet2s[j] = Inf)
                  => LastEntry.prob_constraint_satisfied = N_SIM_RUNS_PER_AV_SPEED
    /\ \A c \in 1..Len(optimization_summary) :
           /\ optimization_summary[c].prob_constraint_satisfied >= 0
           /\ optimization_summary[c].prob_constraint_satisfied <= N_SIM_RUNS_PER_AV_SPEED

\* Every run of the second candidate gave +infinity twice, one of them the
\* degraded outcome, and the candidate's probability is N/N; the first
\* candidate had a run below the threshold
C11_Witness ==
    /\ opt_pc = "candidates"
    /\ cand = 3
    /\ Len(run_pet1s) = N_SIM_RUNS_PER_AV_SPEED
    /\ N_SIM_RUNS_PER_AV_SPEED >= 2
    /\ \A j \in 1..Len(run_pet1s) : run_pet1s[j] = Inf /\ run_pet2s[j] = Inf
    /\ optimization_summary[2].prob_constraint_satisfied = N_SIM_RUNS_PER_AV_SPEED
    /\ optimization_summary[1].prob_constraint_satisfied = 1

\* The candidates whose probability k / N is at least 0.90
EligibleCandidates ==
    { c \in 1..Len(optimization_summary) :
        10 * optimization_summary[c].prob_constraint_satisfied
            >= 9 * N_SIM_RUNS_PER_AV_SPEED }

MetricDefined(c) == optimization_summary[c].avg_traversal_time.num >= 0

\* The metric of candidate c is at most that of candidate d, both defined
MetricAtMost(c, d) ==
    optimization_summary[c].avg_traversal_time.num
            * optimization_summary[d].avg_traversal_time.den
        <= optimization_summary[d].avg_traversal_time.num
            * optimization_summary[c].avg_traversal_time.den

\* best_av_speed, best_traversal_time, best_prob_satisfaction are those of
\* candidate c
IsChosen(c) ==
    /\ best_av_speed = optimization_summary[c].av_speed
    /\ best_traversal_time = optimization_summary[c].avg_traversal_time
    /\ best_prob_satisfaction = optimization_summary[c].prob_constraint_satisfied

\* C12: when some candidate is eligible, the chosen candidate is eligible; if
\* an eligible candidate has a defined metric the chosen one has the smallest
\* defined metric, so one with an undefined metric is chosen only when no
\* eligible candidate has a defined one; no eligible candidate of exactly the
\* chosen metric has a larger speed.
C12_SelectionRule ==
    (opt_pc = "done" /\ EligibleCandidates # {}) =>
        \E c \in EligibleCandidates :
            /\ IsChosen(c)
            /\ (\E d \in EligibleCandidates : MetricDefined(d)) =>
                   /\ MetricDefined(c)
                   /\ \A d \in EligibleCandidates : MetricDefined(d) => MetricAtMost(c, d)
            /\ \A d \in EligibleCandidates :
                   optimization_summary[d].avg_traversal_time
                           = optimization_summary[c].avg_traversal_time
                       => optimization_summary[d].av_speed
                              <= optimization_summary[c].av_speed

\* Three eligible candidates: the first has the greatest metric, the other
\* two the same smaller one, and the third, the faster of them, is chosen
C12_Witness ==
    /\ opt_pc = "done"
    /\ EligibleCandidates = {1, 2, 3}
    /\ MetricDefined(1) /\ MetricDefined(2)
    /\ ~MetricAtMost(1, 2)
    /\ optimization_summary[2].avg_traversal_time
           = optimization_summary[3].avg_traversal_time
    /\ IsChosen(3)

\* The candidates of the greatest probability
MostProbable ==
    { c \in 1..Len(optimization_summary) :
        \A d \in 1..Len(optimization_summary) :
            optimization_summary[d].prob_constraint_satisfied
                <= optimization_summary[c].prob_constraint_satisfied }

\* C13: when no candidate is eligible, the best compromise is a candidate of
\* the greatest probability, and among those it has the smallest defined
\* metric, one with an undefined metric coming after every defined one.
C13_FallbackRule ==
    (opt_pc = "done" /\ EligibleCandidates = {}) =>
        \E c \in MostProbable :
            /\ best_compromise = optimization_summary[c]
            /\ (\E d \in MostProbable : MetricDefined(d)) =>
                   /\ MetricDefined(c)
                   /\ \A d \in MostProbable : MetricDefined(d) => MetricAtMost(c, d)

\* C14: the result is reported as 'Optimal AV Speed Found' exactly when some
\* candidate's probability is at least 0.90, and then the reported candidate's
\* own probability is; otherwise the report is 'No AV Speed Found' with a best
\* compromise from the summary, and no optimal speed.
C14_ReportFlag ==
    /\ opt_pc # "done" => report = "none yet"
    /\ opt_pc = "done" =>
           /\ report \in {"Optimal AV Speed Found", "No AV Speed Found"}
           /\ report = "Optimal AV Speed Found" <=> EligibleCandidates # {}
           /\ report = "Optimal AV Speed Found" =>
                  /\ 10 * best_prob_satisfaction >= 9 * N_SIM_RUNS_PER_AV_SPEED
                  /\ \E c \in EligibleCandidates : IsChosen(c)
                  /\ best_compromise = NoCompromise
           /\ report = "No AV Speed Found" =>
                  /\ best_av_speed = NO_SPEED
                  /\ \E c \in 1..Len(optimization_summary) :
                         best_compromise = optimization_summary[c]

\* No candidate reaches 0.90, the best has half of its runs satisfied: the
\* report is 'No AV Speed Found' with that candidate as the compromise
C14_Witness ==
    /\ opt_pc = "done"
    /\ report = "No AV Speed Found"
    /\ EligibleCandidates = {}
    /\ best_compromise.prob_constraint_satisfied > 0
    /\ best_compromise \in { optimization_summary[c] : c \in MostProbable }

\* The runs of the candidate whose traversal time is defined
DefinedRuns == { j \in 1..Len(traversal_time_log) : traversal_time_log[j] # NO_TIME }

RECURSIVE TotalTime(_)
TotalTime(runs) ==
    IF runs = {} THEN 0
    ELSE LET j == CHOOSE k \in runs : TRUE
         IN  traversal_time_log[j] + TotalTime(runs \ {j})

IsDefinedTime(t) == t # NO_TIME

\* C15: a candidate's avg_traversal_time is the arithmetic mean of the
\* traversal times of exactly its runs that returned one (not -1.0), and -1.0
\* when no run did; the times accumulated are those runs' times in order, so a
\* run without a time changes nothing.
C15_MeanOfDefined ==
    /\ (opt_pc \in {"runs", "call"} \/ JustFinalized) =>
           /\ run_traversal_times = SelectSeq(traversal_time_log, IsDefinedTime)
           /\ \A j \in DefinedRuns : traversal_time_log[j] >= 0
    /\ JustFinalized =>
           /\ Len(traversal_time_log) = N_SIM_RUNS_PER_AV_SPEED
           /\ IF DefinedRuns = {}
              THEN LastEntry.avg_traversal_time = MinusOne
              ELSE /\ LastEntry.avg_traversal_time.den > 0
                   /\ LastEntry.avg_traversal_time.num * Cardinality(DefinedRuns)
                          = TotalTime(DefinedRuns) * LastEntry.avg_traversal_time.den

\* A candidate with a run that returned a time and a later run that returned
\* none: its metric is the time of the one
C15_Witness ==
    /\ opt_pc = "candidates"
    /\ Len(optimization_summary) = 2
    /\ Len(traversal_time_log) >= 2
    /\ traversal_time_log[1] = 4
    /\ \A j \in 2..Len(traversal_time_log) : traversal_time_log[j] = NO_TIME
    /\ LastEntry.avg_traversal_time = [num |-> 4, den |-> 1]

----------------------------------------------------------------------------
(* Claims: _get_entry_exit_times on the vehicle trajectory *)

\* The call scans a trajectory of well-formed samples against a polygon
Scanned ==
    /\ Done
    /\ WellFormed(vehicle_trajectory)
    /\ Len(vehicle_trajectory) > 0
    /\ Len(encroachment_area_polygon) >= 3

\* Sample i is inside, as is_inside_polygon decides it
InsideAt(i) ==
    is_inside_polygon(<<vehicle_trajectory[i].x, vehicle_trajectory[i].y>>,
                      encroachment_area_polygon)

TimeAt(i) == vehicle_trajectory[i].time

InsideSamples == { i \in 1..Len(vehicle_trajectory) : InsideAt(i) }

\* The samples that are outside and follow a sample inside
ExitSamples == { i \in 2..Len(vehicle_trajectory) : InsideAt(i - 1) /\ ~InsideAt(i) }

Least(S) == CHOOSE i \in S : \A j \in S : i <= j

\* C16: the entry time is the first sample's time if that sample is inside,
\* else the midpoint of the times of the first pair (outside, inside); later
\* entries do not change it; it is absent exactly when no sample is inside.
C16_EntryTime ==
    Scanned =>
        /\ T_veh.entry = NoneT <=> InsideSamples = {}
        /\ InsideSamples # {} =>
               LET i == Least(InsideSamples)
               IN  IF i = 1 THEN T_veh.entry = Some(TimeAt(1))
                   ELSE /\ T_veh.entry # NoneT
                        /\ 2 * T_veh.entry.v = TimeAt(i - 1) + TimeAt(i)

\* Three samples at different times, outside, inside, outside: the entry is
\* the midpoint of the first two times
C16_Witness ==
    /\ Scanned
    /\ Len(vehicle_trajectory) = 3
    /\ ~InsideAt(1) /\ InsideAt(2) /\ ~InsideAt(3)
    /\ TimeAt(1) < TimeAt(2)
    /\ 2 * T_veh.entry.v = TimeAt(1) + TimeAt(2)

\* C17: the exit time is the midpoint of the times of the first pair (inside,
\* outside), and the samples behind that pair change nothing of the interval;
\* with no such pair and a sample inside, the exit time is the last sample's
\* time; a single sample inside gives entry = exit = its time.
C17_ExitTime ==
    Scanned =>
        /\ ExitSamples # {} =>
               LET i == Least(ExitSamples)
               IN  /\ T_veh.exit # NoneT
                   /\ 2 * T_veh.exit.v = TimeAt(i - 1) + TimeAt(i)
                   /\ T_veh = _get_entry_exit_times(SubSeq(vehicle_trajectory, 1, i),
                                                    encroachment_area_polygon)
        /\ (ExitSamples = {} /\ InsideSamples # {}) =>
               T_veh.exit = Some(TimeAt(Len(vehicle_trajectory)))
        /\ (Len(vehicle_trajectory) = 1 /\ InsideAt(1)) =>
               T_veh = [entry |-> Some(TimeAt(1)), exit |-> Some(TimeAt(1))]

\* Three samples at different times, inside, outside, inside again: the exit
\* is the midpoint of the first two times, the interval that of the first two
\* samples alone
C17_Witness ==
    /\ Scanned
    /\ Len(vehicle_trajectory) = 3
    /\ InsideAt(1) /\ ~InsideAt(2) /\ InsideAt(3)
    /\ TimeAt(1) < TimeAt(2) /\ TimeAt(2) < TimeAt(3)
    /\ T_veh.entry = Some(TimeAt(1))
    /\ 2 * T_veh.exit.v = TimeAt(1) + TimeAt(2)

----------------------------------------------------------------------------
(* Claims: the J2 traversal time of execute_single_sumo_run *)

\* The steps (from 1) that reported car_0 on the J2 lane
OnJ2Steps ==
    { j \in 1..Len(car0_observed) :
        car0_observed[j].present /\ car0_observed[j].lane = ":J2_4_0" }

\* The steps that reported car_0 on another lane, after a step that reported
\* it on the J2 lane
LeftJ2Steps ==
    { j \in 1..Len(car0_observed) :
        /\ car0_observed[j].present /\ car0_observed[j].lane # ":J2_4_0"
        /\ \E k \in OnJ2Steps : k < j }

\* The simulation time step j read: step j is iteration j - 1 of the loop
TimeOfStep(j) == 2 * (j - 1)

\* execute_single_sumo_run returned from its last statement
ReturnedNormally == trial_pc = "returned" /\ step = num_simulation_steps

\* C18: the recorded entry is the time of the first step that saw car_0 on
\* the J2 lane, the recorded exit the time of the first later step that saw it
\* on another lane, whatever is seen afterwards; the traversal time returned
\* is their difference when both exist and -1.0 otherwise, so it is -1.0 or
\* a non-negative number.
C18_TraversalTime ==
    /\ trial_pc \in {"loop", "returned"} =>
           /\ Len(car0_observed) = step
           /\ sim_time_car0_enters_j2 =
                  IF OnJ2Steps = {} THEN NO_TIME ELSE TimeOfStep(Least(OnJ2Steps))
           /\ sim_time_car0_exits_j2 =
                  IF LeftJ2Steps = {} THEN NO_TIME ELSE TimeOfStep(Least(LeftJ2Steps))
    /\ trial_pc = "returned" => (ret.traversal = NO_TIME \/ ret.traversal >= 0)
    /\ ReturnedNormally =>
           ret.traversal =
               IF LeftJ2Steps = {} THEN NO_TIME
               ELSE TimeOfStep(Least(LeftJ2Steps)) - TimeOfStep(Least(OnJ2Steps))

\* car_0 is seen on J2, off it, on it again and off it again: the traversal
\* time is that of the first passage, one step
C18_Witness ==
    /\ ReturnedNormally
    /\ OnJ2Steps = {1, 3}
    /\ LeftJ2Steps = {2, 4}
    /\ ret.traversal = 2

----------------------------------------------------------------------------
(* Claims: the order of run_optimizer's steps *)

\* A candidate's runs begin
CandidateBegins == opt_pc = "candidates" /\ opt_pc' = "runs"

\* A candidate's statistics are finalized
CandidateFinalized == Len(optimization_summary') # Len(optimization_summary)

\* The result is chosen
ResultSelected == opt_pc # "done" /\ opt_pc' = "done"

\* Every candidate has its entry in the summary, all runs are counted
AllEvaluated ==
    /\ Len(optimization_summary) = NUM_AV_SPEED_STEPS
    /\ \A c \in 1..NUM_AV_SPEED_STEPS :
           optimization_summary[c].av_speed = candidate_av_speeds[c]
    /\ current_sim_run_number = NUM_AV_SPEED_STEPS * N_SIM_RUNS_PER_AV_SPEED

\* C19: a candidate's accumulators start empty; its statistics are appended
\* to the summary once, when exactly N of its runs are counted, and no entry
\* of the summary changes afterwards; the result is chosen only when the
\* summary has one entry for each candidate and the run counter is
\* candidates x N.
C19_AccumulationOrder ==
    /\ [][CandidateBegins =>
            /\ successful_pet_constraint_runs' = 0
            /\ run_traversal_times' = <<>>
            /\ i_run' = 0]_vars
    /\ [][CandidateFinalized =>
            /\ opt_pc = "runs"
            /\ i_run = N_SIM_RUNS_PER_AV_SPEED
            /\ Len(traversal_time_log) = N_SIM_RUNS_PER_AV_SPEED
            /\ current_sim_run_number = cand * N_SIM_RUNS_PER_AV_SPEED
            /\ Len(optimization_summary') = Len(optimization_summary) + 1
            /\ Len(optimization_summary') = cand
            /\ SubSeq(optimization_summary', 1, Len(optimization_summary))
                   = optimization_summary
            /\ optimization_summary'[cand].av_speed = candidate_av_speeds[cand]]_vars
    /\ [][ResultSelected => AllEvaluated /\ UNCHANGED optimization_summary]_vars
    /\ [](opt_pc = "done" => AllEvaluated)
    /\ [](opt_pc \in {"runs", "call"} =>
             /\ Len(optimization_summary) = cand - 1
             /\ successful_pet_constraint_runs <= i_run
             /\ Len(run_traversal_times) <= i_run
             /\ i_run <= N_SIM_RUNS_PER_AV_SPEED)
    /\ [](opt_pc \in {"candidates", "done"} => Len(optimization_summary) = cand - 1)

\* The result is chosen after all runs; every run of the first candidate
\* satisfied the constraint and returned a time, no run of the second did
\* either
C19_Witness ==
    /\ opt_pc = "done"
    /\ AllEvaluated
    /\ N_SIM_RUNS_PER_AV_SPEED >= 2
    /\ optimization_summary[1].prob_constraint_satisfied = N_SIM_RUNS_PER_AV_SPEED
    /\ optimization_summary[1].avg_traversal_time # MinusOne
    /\ optimization_summary[2].prob_constraint_satisfied = 0
    /\ optimization_summary[2].avg_traversal_time = MinusOne

----------------------------------------------------------------------------
(* Claims: the branches of calculate_pet *)

\* Both intervals are present with entry <= exit
BothOrdered ==
    /\ Done /\ AllPresent
    /\ T_veh.entry.v <= T_veh.exit.v
    /\ T_ped.entry.v <= T_ped.exit.v

\* None of the conditions of lines 151, 155 and 157 holds: the final else
FinalElse ==
    /\ ~(LatestEntry < EarliestExit)
    /\ ~(T_veh.exit.v <= T_ped.entry.v)
    /\ ~(T_ped.exit.v <= T_veh.entry.v)

\* C20: on two present intervals with entry <= exit, whichever branch is
\* taken, the PET is max(entries) - min(exits); the final else is taken only
\* where that is 0; the PET is negative exactly when the intervals overlap for
\* a positive time.
C20_BranchesAgree ==
    BothOrdered =>
        /\ pet = Fin(Max2(T_veh.entry.v, T_ped.entry.v)
                       - Min2(T_veh.exit.v, T_ped.exit.v))
        /\ FinalElse => (LatestEntry - EarliestExit = 0 /\ pet = Fin(0))
        /\ pet.v < 0 <=> OverlapDuration > 0

\* The vehicle's interval is a single instant strictly inside the
\* pedestrian's: the final else gives 0
C20_Witness ==
    /\ BothOrdered
    /\ FinalElse
    /\ T_veh.entry = T_veh.exit
    /\ T_ped.entry.v < T_veh.entry.v /\ T_veh.exit.v < T_ped.exit.v
    /\ pet = Fin(0)

====
